---- MODULE Spec2Model ----
(***************************************************************************)
(* Model of pkg/kubernetes/kubernetes.go of azp-agent-autoscaler: the      *)
(* cached client handle (k8sClientSet.getClient), the three asynchronous   *)
(* operations that answer on a caller-supplied channel (GetK8sWorkload,    *)
(* VerifyNoHorizontalPodAutoscaler, GetPods) and the synchronous Scale.    *)
(*                                                                         *)
(* Go strings are sequences of one-character strings, so that              *)
(* strings.EqualFold and strings.ToLower are computed, not assumed.        *)
(* A Go pointer or error is the empty set when nil and a singleton set     *)
(* holding the value otherwise.  The cluster is the environment: every API *)
(* call returns one of the outcomes the client library can return.         *)
(***************************************************************************)
EXTENDS Integers, Sequences, FiniteSets, TLC

\* ------------------------------------------------------------------ bounds

\* Largest replica count of the model; counts are 0..MaxReplicas.
MaxReplicas == 2

\* Longest list of autoscaler policies a list call returns.
MaxHpas == 3

\* Number of invocations started over one behaviour.
MaxCalls == 2

\* The caller runs one task (goroutine) per exported function; a task is named
\* by the function it runs and is given a new invocation when it has returned.
AsyncTasks == {"GetK8sWorkload", "VerifyNoHorizontalPodAutoscaler", "GetPods"}

Tasks == AsyncTasks \cup {"Scale"}

ReplicaCounts == 0..MaxReplicas

\* ----------------------------------------------------------------- strings

Nil == {}

Some(x) == {x}

\* The value a non-nil pointer or error holds.
Val(o) == CHOOSE x \in o : TRUE

LowerOf ==
  [A |-> "a", B |-> "b", D |-> "d", E |-> "e", F |-> "f", L |-> "l",
   S |-> "s", T |-> "t", U |-> "u", W |-> "w"]

\* unicode.ToLower on one character of the model's alphabet.
ToLowerChar(c) == IF c \in DOMAIN LowerOf THEN LowerOf[c] ELSE c

\* strings.ToLower
ToLower(s) == [i \in 1..Len(s) |-> ToLowerChar(s[i])]

\* A plausible slip: comparing the strings exactly.
EqualExact(s, t) == s = t

\* strings.EqualFold: equal under simple case folding, character by character.
EqualFold(s, t) ==
  /\ Len(s) = Len(t)
  /\ \A i \in 1..Len(s) : ToLowerChar(s[i]) = ToLowerChar(t[i])

\* The literal "StatefulSet" of lines 54 and 107.
StatefulSet == <<"S", "t", "a", "t", "e", "f", "u", "l", "S", "e", "t">>

Deployment == <<"D", "e", "p", "l", "o", "y", "m", "e", "n", "t">>

\* Kinds a caller passes: the supported kind as the API spells it and in
\* lower case, and an unsupported kind.
Kinds == {StatefulSet, ToLower(StatefulSet), Deployment}

Namespaces == {<<"n", "s">>}

\* Resource names: two that differ only in case.
Names == {<<"w", "e", "b">>, <<"W", "e", "b">>}

\* Label selectors of a workload: none, or one label app=web.
Selectors == {<<>>, << <<<<"a", "p", "p">>, <<"w", "e", "b">>>> >>}

\* The Workload descriptor (type Workload, fields read in this file).
Workloads ==
  [Kind : Kinds, Namespace : Namespaces, Name : Names, PodSelector : Selectors]

\* fmt.Errorf: an error is its format string and the arguments formatted in.
Errorf(format, args) == Some([format |-> format, args |-> args])

\* Errors the cluster API returns (one stands for all: the code never looks
\* into them).
ApiErrors == {Errorf("the server rejected the request", <<>>)}

\* The scale-target references of the autoscaler policies a namespace holds:
\* the API spells the kind "StatefulSet"; the callers' kinds (Kinds) supply
\* the differently-cased and the different kind.
HpaRefs == [Kind : {StatefulSet}, Name : Names]

RECURSIVE SeqsUpTo(_, _)
\* All sequences over S of length at most n.
SeqsUpTo(S, n) ==
  IF n = 0
  THEN {<<>>}
  ELSE LET shorter == SeqsUpTo(S, n - 1)
       IN  shorter \cup {Append(q, x) : q \in shorter, x \in S}

\* The lists a HorizontalPodAutoscalers(namespace).List call can return.
HpaLists == SeqsUpTo(HpaRefs, MaxHpas)

\* The lists a Pods(namespace).List call can return.
PodLists == {<<>>, <<"pod-0">>}

\* ------------------------------------------------------------------- state

VARIABLES
  client,     \* k8sClient.client, the cached handle; NilClient when unset
  replicas,   \* the cluster: desired replica count of each StatefulSet
  started,    \* number of invocations started so far
  pc,         \* per task: its position in its function
  arg,        \* per task: the arguments of the invocation
  local,      \* per task: the function's local variables
  visible,    \* per task: the values a read of k8sClient.client may observe
  channel,    \* per task: the messages sent on the caller's channel
  api,        \* per task: the cluster API requests the invocation issued
  tried,      \* the stage attempts of the cache miss just made, with outcomes
  ret,        \* the value Scale returned
  examined,   \* number of policies the conflict scan examined
  hist,       \* history of the Scale calls (see NoHist)
  seen        \* history of the getClient calls (see NoSeen)

vars ==
  <<client, replicas, started, pc, arg, local, visible, channel, api,
    tried, ret, examined, hist, seen>>

\* A nil *k8s.Clientset; a clientset is named by the task that constructed it
\* (a task constructs at most one: once it has stored it the cache is set).
NilClient == "nil"

Resources == Namespaces \X Names

NoArg ==
  [Kind |-> <<>>, Namespace |-> <<>>, Name |-> <<>>, PodSelector |-> <<>>,
   replicas |-> 0]

\* The locals of the running function: clientset and err of getClient (then
\* client and err of its caller), and what the API call returned: scale
\* (Spec.Replicas of the scale object), hpas (hpas.Items), statefulSet, pods.
NoLocal ==
  [clientset |-> NilClient, err |-> Nil, scale |-> Nil, hpas |-> Nil,
   statefulSet |-> Nil, pods |-> Nil]

\* History of the current Scale call: written, never read, by the operations.
\*   foreign   another writer changed the count of the call's resource since
\*             Scale last fetched or updated it
\*   stale     foreign, as it stood at the fetch of the current call
\*   raced     foreign, as it stood at the update of the current call
\*   fetched   the count the fetch of the current call returned
\*   mutated   updates of the current call that changed the resource
\*   prev      when the call before this one, with nothing between them, was
\*             Scale of the same workload and count: its mutating updates
NoHist ==
  [foreign |-> FALSE, stale |-> FALSE, raced |-> FALSE, fetched |-> Nil,
   mutated |-> 0, prev |-> Nil]

\* History of the getClient calls: written, never read, by the operations.
\*   first     the handle the first successful getClient call returned
\*   overlap   a call missed the cache while a handle existed that it did not
\*             see (see Overlapping)
\*   failed    a getClient call has failed
NoSeen == [first |-> NilClient, overlap |-> FALSE, failed |-> FALSE]

Upd(f, p, v) == [f EXCEPT ![p] = v]

\* The state before the first call; ExternalWrite brings the cluster to any
\* other replica counts.
Init ==
  /\ client = NilClient
  /\ replicas = [r \in Resources |-> 0]
  /\ started = 0
  /\ pc = [p \in Tasks |-> "idle"]
  /\ arg = [p \in Tasks |-> NoArg]
  /\ local = [p \in Tasks |-> NoLocal]
  /\ visible = [p \in Tasks |-> {}]
  /\ channel = [p \in Tasks |-> <<>>]
  /\ api = [p \in Tasks |-> <<>>]
  /\ tried = <<>>
  /\ ret = Nil
  /\ examined = 0
  /\ hist = NoHist
  /\ seen = NoSeen

\* ---------------------------------------------------------------- messages

\* GetWorkloadReturn(resource, err): the WorkloadReturn sent on the channel.
GetWorkloadReturn(resource, e) == [Resource |-> resource, Err |-> e]

\* GetWorkload(statefulSet): the fetched object projected into a Workload.
GetWorkload(statefulSet) ==
  GetWorkloadReturn(
    Some([Kind |-> StatefulSet,
          Namespace |-> Val(statefulSet).Namespace,
          Name |-> Val(statefulSet).Name,
          PodSelector |-> Val(statefulSet).Selector]),
    Nil)

\* type Pods struct { Pods []corev1.Pod; Err error }
PodsMsg(pods, e) == [Pods |-> pods, Err |-> e]

\* A plausible slip: GetPods sends Pods{nil, nil}, the error left out.
MessageErrorLeftOut(p, e) ==
  CASE p = "GetK8sWorkload" -> GetWorkloadReturn(Nil, e)
    [] p = "GetPods" -> PodsMsg(Nil, Nil)
    [] OTHER -> e

\* What a function does with the error of a failed client acquisition: the
\* asynchronous ones send it in the form of their channel's element (lines
\* 64, 80, 149), Scale returns it (line 102).
Message(p, e) ==
  CASE p = "GetK8sWorkload" -> GetWorkloadReturn(Nil, e)
    [] p = "GetPods" -> PodsMsg(Nil, e)
    [] OTHER -> e

\* channel <- m, for each element m of ms in order.
Send(p, ms) == channel' = Upd(channel, p, channel[p] \o ms)

\* A plausible slip: the function returns on an error without sending it.
ReturnOnly(p, e) ==
  /\ pc' = Upd(pc, p, "done")
  /\ UNCHANGED <<channel, ret>>

\* The invocation of task p ends with error e (nil for Scale's success).
EndWith(p, e) ==
  /\ pc' = Upd(pc, p, "done")
  /\ IF p = "Scale"
     THEN ret' = e /\ UNCHANGED channel
     ELSE Send(p, <<Message(p, e)>>) /\ UNCHANGED ret

\* A request to the cluster API, as recorded in api.
Request(verb, namespace, name, body) ==
  [verb |-> verb, namespace |-> namespace, name |-> name, body |-> body]

\* The caller takes a result as soon as it is there (the send on its channel
\* is the hand-over): no task but p holds a result not yet taken.
Quiet(p) == \A q \in Tasks \ {p} : pc[q] # "done"

\* --------------------------------------------------------------- getClient

\* The credential stages in the order of lines 29, 32 and 38.
Stages == <<"InCluster", "KUBECONFIG", "HOME">>

\* The environment of a call: for each stage, whether it would find a
\* configuration if attempted.
StageOutcomes == [DOMAIN Stages -> BOOLEAN]

RECURSIVE ConfigChainAll(_, _)
\* A plausible slip: the stages are not nested, each one is attempted whatever
\* the one before returned.
ConfigChainAll(works, i) ==
  LET attempt == [stage |-> Stages[i], ok |-> works[i]]
  IN  IF i = Len(Stages)
      THEN <<attempt>>
      ELSE <<attempt>> \o ConfigChainAll(works, i + 1)

RECURSIVE ConfigChain(_, _)
\* Lines 29-43 from stage i on: the attempts made, each with its outcome.  The
\* next stage is attempted inside the err != nil branch of the one before.
ConfigChain(works, i) ==
  LET attempt == [stage |-> Stages[i], ok |-> works[i]]
  IN  IF works[i] \/ i = Len(Stages)
      THEN <<attempt>>
      ELSE <<attempt>> \o ConfigChain(works, i + 1)

\* err == nil after the chain: the last attempt found a configuration.
ConfigFound(t) == t[Len(t)].ok

\* Line 40.
ConfigError ==
  Errorf("Error initializing Kubernetes config: %s", <<"no configuration">>)

\* The error of k8s.NewForConfig, line 45.
NewForConfigError == Errorf("NewForConfig failed", <<>>)

\* A plausible slip: the cache is never consulted.
NeverCached(c) == FALSE

\* Lines 25-27: whether getClient answers from the cache.
Cached(c) == c # NilClient

\* A plausible slip: the assignment of line 47 is missing.
StoreNever(cur, cs, e) == cur

\* A plausible slip: the result is stored whether or not construction failed.
StoreAlways(cur, cs, e) == cs

\* Lines 46-48: the handle cached after k8s.NewForConfig returned (cs, e).
StoreClient(cur, cs, e) == IF e = Nil THEN cs ELSE cur

\* Task p misses the cache, having read c, while a handle exists that it did
\* not see: one stored since, or one built by another call and not yet stored.
Overlapping(p, c) ==
  \/ c # client
  \/ \E q \in Tasks \ {p} : pc[q] = "setClient" /\ local[q].err = Nil

\* getClient returned handle c without error.
Returned(c) ==
  [seen EXCEPT !.first = IF @ = NilClient THEN c ELSE @]

\* Lines 24-45: the cache check, and on a miss the configuration chain and
\* k8s.NewForConfig.  The read of wrapper.client is not synchronised: it
\* observes the value the field held when the task was started or any value
\* written since (visible).  Nothing between the read and the construction
\* touches shared state.
getClient(p) ==
  /\ pc[p] = "getClient"
  /\ Quiet(p)
  /\ \E c \in visible[p] :
       IF Cached(c)
       THEN /\ local' = [local EXCEPT ![p].clientset = c]
            /\ pc' = Upd(pc, p, "call")
            /\ seen' = Returned(c)
            /\ UNCHANGED <<tried, channel, ret>>
       ELSE \E works \in StageOutcomes, built \in BOOLEAN :
              /\ tried' = ConfigChain(works, 1)
              /\ IF ~ConfigFound(tried')
                 THEN /\ local' = [local EXCEPT ![p].err = ConfigError]
                      /\ EndWith(p, ConfigError)
                      /\ seen' = [seen EXCEPT
                                    !.failed = TRUE,
                                    !.overlap = @ \/ Overlapping(p, c)]
                 ELSE /\ local' =
                           [local EXCEPT
                              ![p].clientset =
                                 IF built THEN p ELSE NilClient,
                              ![p].err =
                                 IF built THEN Nil ELSE NewForConfigError]
                      /\ pc' = Upd(pc, p, "setClient")
                      /\ seen' =
                           [seen EXCEPT !.overlap = @ \/ Overlapping(p, c)]
                      /\ UNCHANGED <<channel, ret>>
  /\ visible' = Upd(visible, p, {})
  /\ UNCHANGED <<client, replicas, started, arg, api, examined, hist>>

\* Lines 46-49: the unguarded write of wrapper.client and the return.  The
\* new value becomes observable to the reads still to come.
setClient(p) ==
  /\ pc[p] = "setClient"
  /\ Quiet(p)
  /\ client' = StoreClient(client, local[p].clientset, local[p].err)
  /\ visible' =
       [q \in Tasks |->
          IF pc[q] = "getClient" THEN visible[q] \cup {client'} ELSE visible[q]]
  /\ IF local[p].err = Nil
     THEN /\ pc' = Upd(pc, p, "call")
          /\ seen' = Returned(local[p].clientset)
          /\ UNCHANGED <<channel, ret>>
     ELSE /\ EndWith(p, local[p].err)
          /\ seen' = [seen EXCEPT !.failed = TRUE]
  /\ tried' = <<>>
  /\ UNCHANGED <<replicas, started, arg, local, api, examined, hist>>

\* ------------------------------------------------------------- invocations

\* The caller's receive from the channel of task p can proceed: a message
\* has been sent on it (Scale returns its result, there is no channel).
Delivered(p) == p \in AsyncTasks => channel[p] # <<>>

\* Task p can be given a new invocation: it has none, or the caller takes the
\* result of the last one and starts the next.
Free(p) ==
  /\ pc[p] = "idle" \/ (pc[p] = "done" /\ Delivered(p))
  /\ started < MaxCalls
  /\ Quiet(p)

\* The caller starts task p with arguments a and a fresh channel.  Starting
\* a task is a synchronisation: the task observes the cache as it is.
Begin(p, a) ==
  /\ Free(p)
  /\ started' = started + 1
  /\ arg' = Upd(arg, p, a)
  /\ local' = Upd(local, p, NoLocal)
  /\ visible' = Upd(visible, p, {client})
  /\ api' = Upd(api, p, <<>>)
  /\ UNCHANGED <<client, replicas, tried, seen>>

\* The caller has taken the result of task p; the invocation is over.
Finish(p) ==
  /\ pc[p] = "done"
  /\ Delivered(p)
  /\ pc' = Upd(pc, p, "idle")
  /\ arg' = Upd(arg, p, NoArg)
  /\ local' = Upd(local, p, NoLocal)
  /\ channel' = Upd(channel, p, <<>>)
  /\ api' = Upd(api, p, <<>>)
  /\ ret' = IF p = "Scale" THEN Nil ELSE ret
  /\ hist' = IF p = "Scale" THEN NoHist ELSE hist
  /\ examined' = IF p = "VerifyNoHorizontalPodAutoscaler" THEN 0 ELSE examined
  /\ tried' = <<>>
  /\ UNCHANGED <<client, replicas, started, visible, seen>>

\* Lines 57 and 117.
NotImplemented(kind) == Errorf("Resource kind %s is not implemented", <<kind>>)

\* A plausible slip: the kind is compared exactly.
SupportedExact(kind) == EqualExact(kind, StatefulSet)

\* Lines 54 and 107: the kind dispatch.
Supported(kind) == EqualFold(kind, StatefulSet)

\* --------------------------------------------------------- GetK8sWorkload

\* Lines 53-59, up to the call of getStatefulSet: an unsupported kind is
\* answered at once.
GetK8sWorkload ==
  LET p == "GetK8sWorkload"
  IN  \E kind \in Kinds, namespace \in Namespaces, name \in Names :
        /\ Begin(p, [NoArg EXCEPT !.Kind = kind, !.Namespace = namespace,
                                  !.Name = name])
        /\ IF Supported(kind)
           THEN /\ pc' = Upd(pc, p, "getClient")
                /\ channel' = Upd(channel, p, <<>>)
           ELSE /\ pc' = Upd(pc, p, "done")
                /\ channel' =
                     Upd(channel, p,
                         <<GetWorkloadReturn(Nil, NotImplemented(kind))>>)
        /\ UNCHANGED <<ret, examined, hist>>

\* Line 70.
NotFound(namespace, name) ==
  Errorf("Could not find statefulset/%s in namespace %s", <<name, namespace>>)

\* A plausible slip: the nil object is not checked for.
ResultUnchecked(statefulSet, e, namespace, name) ==
  IF e # Nil
  THEN GetWorkloadReturn(Nil, e)
  ELSE GetWorkloadReturn(statefulSet, Nil)

\* Lines 67-73: the WorkloadReturn made of what Get returned.
getStatefulSetResult(statefulSet, e, namespace, name) ==
  IF e # Nil
  THEN GetWorkloadReturn(Nil, e)
  ELSE IF statefulSet = Nil
       THEN GetWorkloadReturn(Nil, NotFound(namespace, name))
       ELSE GetWorkload(statefulSet)

\* What StatefulSets(namespace).Get(name) can return: an error, a nil object
\* with no error, or the object of that namespace and name.
GetOutcomes(namespace, name) ==
  {[statefulSet |-> Nil, err |-> e] : e \in ApiErrors \cup {Nil}}
    \cup {[statefulSet |->
             Some([Namespace |-> namespace, Name |-> name, Selector |-> sel]),
           err |-> Nil] : sel \in Selectors}

\* Lines 66-73 and the send of line 55.
getStatefulSet ==
  LET p == "GetK8sWorkload"
  IN  /\ pc[p] = "call"
      /\ Quiet(p)
      /\ \E r \in GetOutcomes(arg[p].Namespace, arg[p].Name) :
           /\ local' = [local EXCEPT ![p].statefulSet = r.statefulSet,
                                     ![p].err = r.err]
           /\ Send(p, <<getStatefulSetResult(r.statefulSet, r.err,
                                             arg[p].Namespace, arg[p].Name)>>)
      /\ api' = Upd(api, p,
                    Append(api[p],
                           Request("Get", arg[p].Namespace, arg[p].Name, Nil)))
      /\ pc' = Upd(pc, p, "done")
      /\ UNCHANGED <<client, replicas, started, arg, visible, tried, ret,
                     examined, hist, seen>>

\* ----------------------------------------- VerifyNoHorizontalPodAutoscaler

\* Lines 77-78: the call, up to the acquisition of the client.
VerifyNoHorizontalPodAutoscaler ==
  LET p == "VerifyNoHorizontalPodAutoscaler"
  IN  \E kind \in Kinds, namespace \in Namespaces, name \in Names :
        /\ Begin(p, [NoArg EXCEPT !.Kind = kind, !.Namespace = namespace,
                                  !.Name = name])
        /\ pc' = Upd(pc, p, "getClient")
        /\ channel' = Upd(channel, p, <<>>)
        /\ examined' = 0
        /\ UNCHANGED <<ret, hist>>

\* Line 90.
Conflict(kind, name) ==
  Errorf("Error: %s/%s cannot have a HorizontalPodAutoscaler attached for azp-agent-autoscaler to work",
         <<ToLower(kind), name>>)

\* A plausible slip: the name is compared case-insensitively too.
TargetsFold(hpa, kind, name) ==
  EqualFold(hpa.Kind, kind) /\ EqualFold(hpa.Name, name)

\* Line 89: the policy's scale target is the given resource.
Targets(hpa, kind, name) == EqualFold(hpa.Kind, kind) /\ hpa.Name = name

RECURSIVE ScanNoReturn(_, _, _, _)
\* A plausible slip: the return of line 91 is missing.
ScanNoReturn(items, i, kind, name) ==
  IF i > Len(items)
  THEN [sent |-> <<Nil>>, examined |-> Len(items)]
  ELSE LET rest == ScanNoReturn(items, i + 1, kind, name)
       IN  IF Targets(items[i], kind, name)
           THEN [sent |-> <<Conflict(kind, name)>> \o rest.sent,
                 examined |-> rest.examined]
           ELSE rest

RECURSIVE Scan(_, _, _, _)
\* Lines 88-95 from item i on: the messages sent, and how many items of the
\* list were examined.
Scan(items, i, kind, name) ==
  IF i > Len(items)
  THEN [sent |-> <<Nil>>, examined |-> Len(items)]
  ELSE IF Targets(items[i], kind, name)
       THEN [sent |-> <<Conflict(kind, name)>>, examined |-> i]
       ELSE Scan(items, i + 1, kind, name)

\* Lines 83-95: the list call, and the scan of what it returned.
ListHorizontalPodAutoscalers ==
  LET p == "VerifyNoHorizontalPodAutoscaler"
  IN  /\ pc[p] = "call"
      /\ Quiet(p)
      /\ api' = Upd(api, p,
                    Append(api[p],
                           Request("ListHPA", arg[p].Namespace, <<>>, Nil)))
      /\ \/ \E e \in ApiErrors :
              /\ local' = [local EXCEPT ![p].err = e]
              /\ Send(p, <<e>>)
              /\ UNCHANGED examined
         \/ \E items \in HpaLists :
              LET s == Scan(items, 1, arg[p].Kind, arg[p].Name)
              IN  /\ local' = [local EXCEPT ![p].hpas = Some(items)]
                  /\ Send(p, s.sent)
                  /\ examined' = s.examined
      /\ pc' = Upd(pc, p, "done")
      /\ UNCHANGED <<client, replicas, started, arg, visible, tried, ret,
                     hist, seen>>

\* ------------------------------------------------------------------- Scale

\* A plausible slip: the resource is looked up under its name in lower case.
ResourceLowered(w) == <<w.Namespace, ToLower(w.Name)>>

\* The StatefulSet a workload names.
ResourceOf(w) == <<w.Namespace, w.Name>>

\* Lines 99-100: the call, up to the acquisition of the client.  Of the
\* workload only the fields Scale reads are kept.
Scale ==
  LET p == "Scale"
  IN  \E resource \in Workloads, n \in ReplicaCounts :
        LET a == [Kind |-> resource.Kind, Namespace |-> resource.Namespace,
                  Name |-> resource.Name, PodSelector |-> <<>>, replicas |-> n]
            again == pc[p] = "done" /\ arg[p] = a
        IN  /\ Begin(p, a)
            /\ hist' = [NoHist EXCEPT
                          !.foreign = again /\ hist.foreign,
                          !.prev = IF again THEN Some(hist.mutated) ELSE Nil]
            /\ pc' = Upd(pc, p, "getClient")
            /\ ret' = Nil
            /\ UNCHANGED <<channel, examined>>

\* A plausible slip: the comparison of line 124 is inverted.
CompareInverted(current, n) == current = n

\* A plausible slip: the count is not compared, the update is always issued.
AlwaysUpdate(current, n) == TRUE

\* Line 124: the fetched count differs from the desired one.
NeedsUpdate(current, n) == current # n

\* A plausible slip: the desired count is added to the current one.
AddedReplicas(current, n) == (current + n) % (MaxReplicas + 1)

\* Line 127: the count written into the fetched scale object.
NewReplicas(current, n) == n

\* Lines 105-126: the kind dispatch, the fetch of the scale sub-resource and
\* the comparison with the desired count.
getScaleFunc ==
  LET p == "Scale"
  IN  /\ pc[p] = "call"
      /\ Quiet(p)
      /\ IF ~Supported(arg[p].Kind)
         THEN /\ EndWith(p, NotImplemented(arg[p].Kind))
              /\ UNCHANGED <<local, api, hist>>
         ELSE /\ api' = Upd(api, p,
                            Append(api[p],
                                   Request("GetScale", arg[p].Namespace,
                                           arg[p].Name, Nil)))
              /\ \/ \E e \in ApiErrors :
                      /\ local' = [local EXCEPT ![p].err = e]
                      /\ EndWith(p, e)
                      /\ UNCHANGED hist
                 \/ LET current == replicas[ResourceOf(arg[p])]
                    IN  /\ local' = [local EXCEPT ![p].scale = Some(current)]
                        /\ hist' = [hist EXCEPT !.stale = hist.foreign,
                                                !.foreign = FALSE,
                                                !.fetched = Some(current)]
                        /\ IF NeedsUpdate(current, arg[p].replicas)
                           THEN /\ pc' = Upd(pc, p, "update")
                                /\ UNCHANGED <<channel, ret>>
                           ELSE EndWith(p, Nil)
      /\ UNCHANGED <<client, replicas, started, arg, visible, tried,
                     examined, seen>>

\* A plausible slip: the error of UpdateScale is dropped.
UpdateErrorDropped(e) == Nil

\* Lines 113-114 and 128: what Scale returns after UpdateScale answered e.
UpdateScaleResult(e) == e

\* A change of design rather than a slip: the update is refused, with an error
\* of Scale's own, when the resource changed since the fetch.
doScaleFuncGuarded ==
  LET p == "Scale"
  IN  /\ pc[p] = "update"
      /\ Quiet(p)
      /\ hist.foreign
      /\ hist' = [hist EXCEPT !.raced = TRUE, !.foreign = FALSE]
      /\ EndWith(p, Errorf("the resource changed since it was fetched", <<>>))
      /\ UNCHANGED <<client, replicas, started, arg, local, visible, api,
                     tried, examined, seen>>

\* Lines 127-128: the update of the scale sub-resource with the desired
\* count.  The cluster applies it or not and answers with an error or not;
\* an answer without error means it was applied.
doScaleFunc ==
  LET p == "Scale"
      r == ResourceOf(arg[p])
      n == NewReplicas(Val(local[p].scale), arg[p].replicas)
  IN  /\ pc[p] = "update"
      /\ Quiet(p)
      /\ api' = Upd(api, p,
                    Append(api[p],
                           Request("UpdateScale", arg[p].Namespace,
                                   arg[p].Name, Some(n))))
      /\ \E applied \in BOOLEAN, e \in ApiErrors \cup {Nil} :
           /\ e = Nil => applied
           /\ replicas' = IF applied THEN [replicas EXCEPT ![r] = n]
                          ELSE replicas
           /\ local' = [local EXCEPT ![p].scale = Some(n), ![p].err = e]
           /\ hist' = [hist EXCEPT
                         !.raced = hist.foreign,
                         !.foreign = FALSE,
                         !.mutated = IF applied /\ replicas[r] # n
                                     THEN @ + 1 ELSE @]
           /\ EndWith(p, UpdateScaleResult(e))
      /\ UNCHANGED <<client, started, arg, visible, tried, examined,
                     seen>>

\* ----------------------------------------------------------------- GetPods

\* Lines 146-147: the call, up to the acquisition of the client.  Of the
\* workload only the fields GetPods reads are kept.
GetPods ==
  LET p == "GetPods"
  IN  \E workload \in Workloads :
        /\ Begin(p, [NoArg EXCEPT !.Namespace = workload.Namespace,
                                  !.PodSelector = workload.PodSelector])
        /\ pc' = Upd(pc, p, "getClient")
        /\ channel' = Upd(channel, p, <<>>)
        /\ UNCHANGED <<ret, examined, hist>>

RECURSIVE JoinLabels(_, _)
\* The requirements k=v of labels i.. joined by commas.
JoinLabels(labels, i) ==
  IF i > Len(labels)
  THEN <<>>
  ELSE (IF i > 1 THEN <<",">> ELSE <<>>)
         \o labels[i][1] \o <<"=">> \o labels[i][2] \o JoinLabels(labels, i + 1)

\* apimachinery's FormatLabelSelector: the selector as a string, "<none>"
\* when it selects nothing.
FormatLabelSelector(labels) ==
  IF Len(labels) = 0
  THEN <<"<", "n", "o", "n", "e", ">">>
  ELSE JoinLabels(labels, 1)

\* A plausible slip: the error is not branched on, what List returned is sent
\* as it came.
PodsUnbranched(pods, e) == PodsMsg(pods, e)

\* Lines 157-161: the message made of what List returned.
ListPodsResult(pods, e) ==
  IF e # Nil THEN PodsMsg(Nil, e) ELSE PodsMsg(pods, Nil)

\* What Pods(namespace).List can return: an error, with a list the code does
\* not look at, or a list and no error.
ListPodsOutcomes ==
  {[pods |-> l, err |-> e] : l \in {Nil} \cup {Some(x) : x \in PodLists},
                             e \in ApiErrors}
    \cup {[pods |-> Some(x), err |-> Nil] : x \in PodLists}

\* Lines 153-161: the list call and the send of its result.
ListPods ==
  LET p == "GetPods"
  IN  /\ pc[p] = "call"
      /\ Quiet(p)
      /\ api' = Upd(api, p,
                    Append(api[p],
                           Request("ListPods", arg[p].Namespace, <<>>,
                                   Some(FormatLabelSelector(arg[p].PodSelector)))))
      /\ \E r \in ListPodsOutcomes :
           /\ local' = [local EXCEPT ![p].pods = r.pods, ![p].err = r.err]
           /\ Send(p, <<ListPodsResult(r.pods, r.err)>>)
      /\ pc' = Upd(pc, p, "done")
      /\ UNCHANGED <<client, replicas, started, arg, visible, tried, ret,
                     examined, hist, seen>>

\* ------------------------------------------------------------- environment

\* Another writer of the cluster (an autoscaler, an operator) changes the
\* desired replica count of a StatefulSet.
ExternalWrite ==
  /\ Quiet("")
  /\ \E r \in Resources, n \in ReplicaCounts :
       /\ n # replicas[r]
       /\ replicas' = [replicas EXCEPT ![r] = n]
       /\ hist' = IF pc["Scale"] # "idle" /\ ResourceOf(arg["Scale"]) = r
                  THEN [hist EXCEPT !.foreign = TRUE]
                  ELSE hist
  /\ UNCHANGED <<client, started, pc, arg, local, visible, channel, api,
                 tried, ret, examined, seen>>

\* ---------------------------------------------------------- specifications

\* The whole program: the four functions run concurrently.
Next ==
  \/ GetK8sWorkload
  \/ VerifyNoHorizontalPodAutoscaler
  \/ Scale
  \/ GetPods
  \/ \E p \in Tasks : getClient(p)
  \/ \E p \in Tasks : setClient(p)
  \/ getStatefulSet
  \/ ListHorizontalPodAutoscalers
  \/ getScaleFunc
  \/ doScaleFunc
  \/ ListPods
  \/ \E p \in Tasks : Finish(p)
  \/ ExternalWrite

Spec == Init /\ [][Next]_vars

\* The asynchronous operations, as the coordinator runs them.
NextAsync ==
  \/ GetK8sWorkload
  \/ VerifyNoHorizontalPodAutoscaler
  \/ GetPods
  \/ \E p \in AsyncTasks : getClient(p)
  \/ \E p \in AsyncTasks : setClient(p)
  \/ getStatefulSet
  \/ ListHorizontalPodAutoscalers
  \/ ListPods
  \/ \E p \in AsyncTasks : Finish(p)

SpecAsync == Init /\ [][NextAsync]_vars

\* Scheduling of the asynchronous operations: every task that can take a step
\* eventually takes it (the Go scheduler is fair to runnable goroutines),
\* every cluster API call returns, and the coordinator receives from the
\* channel of every operation it started.
FairAsync ==
  /\ \A p \in AsyncTasks :
       /\ WF_vars(getClient(p))
       /\ WF_vars(setClient(p))
       /\ WF_vars(Finish(p))
  /\ WF_vars(getStatefulSet)
  /\ WF_vars(ListHorizontalPodAutoscalers)
  /\ WF_vars(ListPods)

\* Where the data the asynchronous operations handle does not matter (their
\* progress, what they leave alone), they are given one resource name, the
\* kind as the API spells it, workloads without labels, and from the cluster
\* policy lists of at most one policy and empty pod lists.
PlainData ==
  \A p \in AsyncTasks :
    /\ arg[p].Name \in {<<>>, <<"w", "e", "b">>}
    /\ arg[p].Kind \in {<<>>, StatefulSet}
    /\ arg[p].PodSelector = <<>>
    /\ local[p].hpas # Nil => Len(Val(local[p].hpas)) <= 1
    /\ local[p].statefulSet # Nil => Val(local[p].statefulSet).Selector = <<>>
    /\ local[p].pods \in {Nil, Some(<<>>)}

NextAsyncPlain == NextAsync /\ PlainData'

SpecAsyncFair == Init /\ [][NextAsyncPlain]_vars /\ FairAsync

\* The caller of Scale and the other writers of the cluster.
NextScale ==
  \/ Scale
  \/ getClient("Scale")
  \/ setClient("Scale")
  \/ getScaleFunc
  \/ doScaleFunc
  \/ Finish("Scale")
  \/ ExternalWrite

SpecScale == Init /\ [][NextScale]_vars

\* The program alone, all four functions and no other writer of the cluster,
\* on the data of PlainData.
NextProgram ==
  /\ \/ NextAsync
     \/ Scale
     \/ getClient("Scale")
     \/ setClient("Scale")
     \/ getScaleFunc
     \/ doScaleFunc
     \/ Finish("Scale")
  /\ PlainData'

SpecProgram == Init /\ [][NextProgram]_vars

\* ------------------------------------------------------------------ claims

\* The requests of verb v task p has issued.
Calls(p, v) == {i \in DOMAIN api[p] : api[p][i].verb = v}

\* The kind is "StatefulSet" up to the case of its letters.
IsStatefulSet(kind) == ToLower(kind) = ToLower(StatefulSet)

\* The policies of a list that target (kind, name): kind up to case, name
\* exactly.
Matching(items, kind, name) ==
  {i \in DOMAIN items :
     ToLower(items[i].Kind) = ToLower(kind) /\ items[i].Name = name}

\* C1: every invocation of GetK8sWorkload, VerifyNoHorizontalPodAutoscaler and
\* GetPods has sent exactly one message on its channel when it returns, on
\* every path, and none before.
C1_ExactlyOneMessage ==
  \A p \in AsyncTasks :
    /\ pc[p] = "done" => Len(channel[p]) = 1
    /\ pc[p] # "done" => Len(channel[p]) = 0

\* C1 witness: the conflict check has returned after a list in which several
\* policies match.
C1_Witness ==
  LET p == "VerifyNoHorizontalPodAutoscaler"
  IN  /\ pc[p] = "done"
      /\ local[p].hpas # Nil
      /\ Cardinality(Matching(Val(local[p].hpas), arg[p].Kind, arg[p].Name)) >= 2
      /\ Len(channel[p]) = 1

\* C2 as stated: two Scale calls of the same workload and count, one after
\* the other, make at most one update that changes the resource.
C2_Original ==
  (pc["Scale"] = "done" /\ hist.prev # Nil)
    => Val(hist.prev) + hist.mutated <= 1

\* C2 amended: ... at most one update that changes the resource, unless
\* another writer changed the resource's count after the first call last
\* fetched or updated it and before the second call fetched it.
C2_Amended ==
  (pc["Scale"] = "done" /\ hist.prev # Nil)
    => (Val(hist.prev) + hist.mutated <= 1 \/ hist.stale)

\* C2 witness: the second call has returned; the first one changed the
\* resource, nobody else did since, and the second fetched the count.
C2_Witness ==
  /\ pc["Scale"] = "done"
  /\ hist.prev = Some(1)
  /\ ~hist.stale
  /\ hist.fetched # Nil

\* C3: when the fetch succeeded, Scale returns nil without any update if the
\* fetched count equals the desired one, and otherwise issues exactly one
\* update, whose count is the desired one.
C3_CompareThenWrite ==
  LET p == "Scale"
      writes == Calls(p, "UpdateScale")
  IN  (pc[p] = "done" /\ hist.fetched # Nil)
        => IF Val(hist.fetched) = arg[p].replicas
           THEN ret = Nil /\ writes = {}
           ELSE /\ Cardinality(writes) = 1
                /\ \A i \in writes : api[p][i].body = Some(arg[p].replicas)

\* C3 witness: a call that found the count different and wrote it.
C3_Witness ==
  LET p == "Scale"
  IN  /\ pc[p] = "done"
      /\ hist.fetched # Nil
      /\ Val(hist.fetched) # arg[p].replicas
      /\ Cardinality(Calls(p, "UpdateScale")) = 1
      /\ ret = Nil

\* C4: for a kind that is not "StatefulSet" up to case, GetK8sWorkload sends
\* the unimplemented-kind error as its one message, acquires no client and
\* calls no API; for every case variant of "StatefulSet" it goes on to
\* getStatefulSet.
C4_KindDispatch ==
  LET p == "GetK8sWorkload"
      kind == arg[p].Kind
  IN  pc[p] # "idle" =>
        IF IsStatefulSet(kind)
        THEN \/ pc[p] \in {"getClient", "setClient", "call"}
             \/ /\ pc[p] = "done"
                /\ channel[p][1].Err # NotImplemented(kind)
        ELSE /\ pc[p] = "done"
             /\ channel[p] = <<[Resource |-> Nil, Err |-> NotImplemented(kind)]>>
             /\ api[p] = <<>>
             /\ local[p] = NoLocal

\* C4 witness: the kind in lower case has reached the cluster.
C4_Witness ==
  LET p == "GetK8sWorkload"
  IN  /\ pc[p] = "done"
      /\ arg[p].Kind = ToLower(StatefulSet)
      /\ Calls(p, "Get") # {}

\* C5 as stated: for an unsupported kind Scale returns the unsupported-kind
\* error and calls no API, whatever the state of the client handle.
C5_Claim ==
  LET p == "Scale"
  IN  (pc[p] = "done" /\ ~IsStatefulSet(arg[p].Kind))
        => ret = NotImplemented(arg[p].Kind) /\ api[p] = <<>>

\* C6: when the list call succeeds the conflict check sends the conflict
\* error if and only if a listed policy targets (kind, name), kind up to case
\* and name exactly, and nil otherwise; it examines the list up to the first
\* such policy and no further; when the list call fails it sends that error
\* and examines nothing.
C6_ConflictScan ==
  LET p == "VerifyNoHorizontalPodAutoscaler"
  IN  (pc[p] = "done" /\ Calls(p, "ListHPA") # {})
        => IF local[p].hpas = Nil
           THEN /\ local[p].err \in ApiErrors
                /\ channel[p] = <<local[p].err>>
                /\ examined = 0
           ELSE LET items == Val(local[p].hpas)
                    hits == Matching(items, arg[p].Kind, arg[p].Name)
                IN  /\ Len(channel[p]) = 1
                    /\ channel[p][1] # Nil <=> hits # {}
                    /\ hits # {} =>
                         /\ channel[p][1] = Conflict(arg[p].Kind, arg[p].Name)
                         /\ \A i \in hits : examined <= i
                         /\ examined \in hits
                    /\ hits = {} => examined = Len(items)

\* C6 witness: a policy whose name differs only in case was passed over and a
\* later one matched, with a policy after it left unexamined.
C6_Witness ==
  LET p == "VerifyNoHorizontalPodAutoscaler"
  IN  /\ pc[p] = "done"
      /\ local[p].hpas # Nil
      /\ LET items == Val(local[p].hpas)
         IN  /\ examined < Len(items)
             /\ examined > 1
             /\ items[1].Name # arg[p].Name
             /\ ToLower(items[1].Name) = ToLower(arg[p].Name)
             /\ ToLower(items[1].Kind) = ToLower(arg[p].Kind)
             /\ channel[p][1] # Nil

\* The handles getClient calls have returned to the invocations under way.
ReturnedHandles ==
  {local[p].clientset : p \in {q \in Tasks : pc[q] # "setClient"}}
    \ {NilClient}

\* C7 as stated: the handle of the first getClient call that succeeded is the
\* handle every later call returns, in every interleaving.
C7_Original == ReturnedHandles \subseteq {seen.first}

\* C7 amended: ... in every interleaving in which no call misses the cache
\* while a handle exists that it did not see (stored since it was started, or
\* built by another call and not yet stored); that handle is the cached one.
C7_Amended ==
  ~seen.overlap =>
    /\ ReturnedHandles \subseteq {seen.first}
    /\ seen.first # NilClient => client = seen.first

\* C7 witness: without such an overlap, a call has returned the handle that
\* another task's call constructed.
C7_Witness ==
  /\ ~seen.overlap
  /\ \E p \in Tasks :
       /\ pc[p] = "call"
       /\ local[p].clientset = seen.first
       /\ local[p].clientset # p

\* C8: a getClient call that fails leaves the cached handle as it was, and no
\* call ever clears a handle that is set; a call that finds the handle unset
\* runs the chain.
C8_FailureNotCached ==
  [][/\ \A p \in Tasks :
          /\ (pc[p] \in {"getClient", "setClient"} /\ pc'[p] = "done")
               => client' = client
          /\ (pc[p] = "getClient" /\ pc'[p] # "getClient"
                /\ visible[p] = {NilClient})
               => tried' # <<>>
     /\ client # NilClient => client' # NilClient]_vars

\* C8 witness: a call failed while the handle was unset, and a later call
\* set it.
C8_Witness == seen.failed /\ ~seen.overlap /\ client # NilClient

\* C9: Scale does not guard its update.  A call whose resource another writer
\* changed between its fetch and its update still issues the update with the
\* desired count and returns the cluster's answer; when that is nil the
\* resource holds the desired count.
C9_UnguardedUpdate ==
  LET p == "Scale"
      writes == Calls(p, "UpdateScale")
  IN  (pc[p] = "done" /\ hist.raced)
        => /\ Cardinality(writes) = 1
           /\ \A i \in writes : api[p][i].body = Some(arg[p].replicas)
           /\ ret = local[p].err
           /\ ret = Nil => replicas[ResourceOf(arg[p])] = arg[p].replicas

\* C9 witness: another writer changed the count after the fetch, and Scale's
\* update replaced that count and returned nil.
C9_Witness ==
  /\ pc["Scale"] = "done"
  /\ hist.raced
  /\ hist.mutated = 1
  /\ ret = Nil

\* C10: for a supported kind the one message of GetK8sWorkload holds either
\* an error or a Workload, never both and never neither: the API's error as
\* it came, a not-found error naming the name and the namespace when Get
\* returned neither object nor error, and otherwise the Workload of the
\* fetched object.
C10_ErrorOrWorkload ==
  LET p == "GetK8sWorkload"
  IN  (pc[p] = "done" /\ IsStatefulSet(arg[p].Kind))
        => /\ Len(channel[p]) = 1
           /\ LET m == channel[p][1]
              IN  /\ m.Err = Nil <=> m.Resource # Nil
                  /\ Calls(p, "Get") # {} =>
                       CASE local[p].err # Nil ->
                              m.Err = local[p].err /\ local[p].err \in ApiErrors
                         [] local[p].statefulSet = Nil ->
                              /\ m.Err # Nil
                              /\ Val(m.Err).args = <<arg[p].Name, arg[p].Namespace>>
                         [] OTHER ->
                              /\ m.Resource # Nil
                              /\ Val(m.Resource).Name = arg[p].Name
                              /\ Val(m.Resource).Namespace = arg[p].Namespace
                              /\ Val(m.Resource).PodSelector =
                                   Val(local[p].statefulSet).Selector

\* C10 witness: Get returned neither an object nor an error.
C10_Witness ==
  LET p == "GetK8sWorkload"
  IN  /\ pc[p] = "done"
      /\ Calls(p, "Get") # {}
      /\ local[p].err = Nil
      /\ local[p].statefulSet = Nil
      /\ channel[p][1].Err = NotFound(arg[p].Namespace, arg[p].Name)

\* The label selector app=web as the list call is given it.
AppWeb == <<"a", "p", "p", "=", "w", "e", "b">>

\* C11: the one message of GetPods is (nil, the error) when the client could
\* not be acquired or the list call failed, and (the listed pods, nil) when
\* the list call succeeded, never an error together with pods; the list call
\* is made once, in the workload's namespace, with the workload's selector in
\* its string form.
C11_PodsOrError ==
  LET p == "GetPods"
      lists == Calls(p, "ListPods")
  IN  pc[p] = "done" =>
        /\ Len(channel[p]) = 1
        /\ LET m == channel[p][1]
           IN  /\ ~(m.Err # Nil /\ m.Pods # Nil)
               /\ IF local[p].err # Nil
                  THEN m = [Pods |-> Nil, Err |-> local[p].err]
                  ELSE /\ lists # {}
                       /\ local[p].pods # Nil
                       /\ m = [Pods |-> local[p].pods, Err |-> Nil]
        /\ Cardinality(lists) <= 1
        /\ lists = {} => local[p].err \in {ConfigError, NewForConfigError}
        /\ \A i \in lists :
             /\ api[p][i].namespace = arg[p].Namespace
             /\ api[p][i].body =
                  Some(IF arg[p].PodSelector = <<>>
                       THEN <<"<", "n", "o", "n", "e", ">">>
                       ELSE AppWeb)

\* C11 witness: the list call for the selector app=web succeeded and its pod
\* was sent.
C11_Witness ==
  LET p == "GetPods"
  IN  /\ pc[p] = "done"
      /\ arg[p].PodSelector # <<>>
      /\ \E i \in Calls(p, "ListPods") : api[p][i].body = Some(AppWeb)
      /\ channel[p] = <<[Pods |-> Some(<<"pod-0">>), Err |-> Nil]>>

\* Task p is inside an invocation that has not returned.
Running(p) == pc[p] \in {"getClient", "setClient", "call"}

\* C12: under fair scheduling, with every API call returning, every started
\* asynchronous operation eventually returns having sent its one message, and
\* the coordinator's receive from its channel eventually proceeds.
C12_CoordinatorNotBlocked ==
  \A p \in AsyncTasks :
    /\ Running(p) ~> (pc[p] = "done" /\ Len(channel[p]) = 1)
    /\ (pc[p] = "done") ~> (pc[p] # "done")

\* C12 witness: two operations run at once, one about to call the cluster
\* and one still acquiring the client.
C12_Witness ==
  \E p, q \in AsyncTasks :
    /\ p # q
    /\ pc[p] = "call"
    /\ pc[q] \in {"getClient", "setClient"}

\* A getClient call that started while the handle was unset is still running:
\* it may yet read nil, or it has run the chain and not yet returned.
Racing ==
  \E p \in Tasks :
    \/ pc[p] = "getClient" /\ NilClient \in visible[p]
    \/ pc[p] = "setClient"

\* The handle is set and no such call is running.
Settled == client # NilClient /\ ~Racing

Miss(p) == pc[p] = "getClient" /\ pc'[p] \in {"setClient", "done"}

\* The construction chain has been run: by a call that failed, by one that
\* returned a handle (its own or, from the cache, another's), or by one that
\* has not yet returned.
ChainRan ==
  \/ seen.failed
  \/ seen.first # NilClient
  \/ \E q \in Tasks : pc[q] = "setClient"

\* C14 as stated: the construction chain is run once over all getClient
\* calls, so no call runs it when it has been run before.
C14_Original == [][\A p \in Tasks : Miss(p) => ~ChainRan]_vars

\* C14 amended: the chain is run again only while no call has succeeded yet
\* (every earlier run failed and the handle is unset), or by a call that
\* overlaps another first-time caller.
C14_Amended ==
  [][\A p \in Tasks :
       Miss(p) => \/ seen.first = NilClient /\ client = NilClient
                  \/ seen'.overlap]_vars

\* C14 witness: after a call that failed, a later call has run the chain
\* again, alone, and constructed a handle.
C14_Witness ==
  /\ seen.failed
  /\ ~seen.overlap
  /\ tried # <<>>
  /\ \E p \in Tasks : pc[p] = "setClient" /\ local[p].err = Nil

\* C15: a getClient call that finds the handle unset attempts the stages in
\* the order in-cluster, KUBECONFIG, home directory, each only after every
\* earlier one failed and none after one succeeded, and fails with the
\* configuration error only when all three failed; a call that finds the
\* handle set attempts none.
C15_StageOrder ==
  [][\A p \in Tasks :
       /\ Miss(p) =>
            LET t == tried'
                n == Len(t)
            IN  /\ n \in 1..3
                /\ \A i \in 1..n :
                     /\ t[i].stage = <<"InCluster", "KUBECONFIG", "HOME">>[i]
                     /\ i < n => ~t[i].ok
                /\ IF t[n].ok
                   THEN pc'[p] = "setClient"
                   ELSE /\ n = 3
                        /\ pc'[p] = "done"
                        /\ local'[p].err = ConfigError
       /\ (pc[p] = "getClient" /\ pc'[p] = "call") => tried' = tried]_vars

\* C15 witness: the in-cluster stage failed, the KUBECONFIG stage succeeded
\* and the home-directory stage was not attempted.
C15_Witness ==
  /\ Len(tried) = 2
  /\ ~tried[1].ok
  /\ tried[2] = [stage |-> "KUBECONFIG", ok |-> TRUE]
  /\ \E p \in Tasks : pc[p] = "setClient"

\* C16: one Scale call fetches the scale sub-resource at most once and
\* updates it at most once; a failed fetch is returned and no update
\* follows; the answer of the update, error or not, is returned; Scale
\* returns nil only after a successful fetch, when the count already matched
\* or the update succeeded.
C16_NoRetryNoSwallow ==
  LET p == "Scale"
      fetches == Calls(p, "GetScale")
      writes == Calls(p, "UpdateScale")
  IN  pc[p] = "done" =>
        /\ Cardinality(fetches) <= 1
        /\ Cardinality(writes) <= 1
        /\ writes # {} => fetches # {} /\ hist.fetched # Nil
        /\ (fetches # {} /\ hist.fetched = Nil)
             => ret \in ApiErrors /\ ret = local[p].err
        /\ writes # {} => ret = local[p].err
        /\ ret = Nil =>
             /\ hist.fetched # Nil
             /\ \/ Val(hist.fetched) = arg[p].replicas /\ writes = {}
                \/ writes # {} /\ local[p].err = Nil

\* C16 witness: the fetch succeeded, the update failed, and Scale returned
\* the error of the update after that one attempt.
C16_Witness ==
  LET p == "Scale"
  IN  /\ pc[p] = "done"
      /\ hist.fetched # Nil
      /\ Cardinality(Calls(p, "UpdateScale")) = 1
      /\ ret \in ApiErrors

\* C17: when Scale returns nil for a supported kind and no other writer
\* changed the resource between Scale's fetch and its return, the resource's
\* desired replica count is the one Scale was asked for, on the path without
\* update as on the path with it.
C17_NilMeansScaled ==
  LET p == "Scale"
  IN  (/\ pc[p] = "done"
       /\ ret = Nil
       /\ IsStatefulSet(arg[p].Kind)
       /\ ~hist.raced
       /\ ~hist.foreign)
        => /\ hist.fetched # Nil
           /\ replicas[<<arg[p].Namespace, arg[p].Name>>] = arg[p].replicas

\* C17 witness: undisturbed, Scale changed the count by its update and
\* returned nil.
C17_Witness ==
  LET p == "Scale"
  IN  /\ pc[p] = "done"
      /\ ret = Nil
      /\ ~hist.raced
      /\ ~hist.stale
      /\ hist.mutated = 1
      /\ replicas[<<arg[p].Namespace, arg[p].Name>>] = arg[p].replicas

\* C18: the asynchronous operations issue only reads (Get and the two list
\* calls) and Scale only GetScale and UpdateScale on its workload's namespace
\* and name; a replica count changes only in the step in which Scale issues
\* its update, and then only that of the workload's own resource.
C18_OnlyScaleWrites ==
  [][/\ \A p \in AsyncTasks : \A i \in DOMAIN api'[p] :
          api'[p][i].verb \in {"Get", "ListHPA", "ListPods"}
     /\ \A i \in DOMAIN api'["Scale"] :
          /\ api'["Scale"][i].verb \in {"GetScale", "UpdateScale"}
          /\ api'["Scale"][i].namespace = arg'["Scale"].Namespace
          /\ api'["Scale"][i].name = arg'["Scale"].Name
     /\ \A r \in Resources :
          replicas'[r] # replicas[r] =>
            /\ pc["Scale"] = "update"
            /\ pc' = [pc EXCEPT !["Scale"] = "done"]
            /\ r = <<arg["Scale"].Namespace, arg["Scale"].Name>>
            /\ replicas'[r] = arg["Scale"].replicas
            /\ Len(api'["Scale"]) = Len(api["Scale"]) + 1
            /\ api'["Scale"][Len(api'["Scale"])].verb = "UpdateScale"]_vars

\* C18 witness: Scale has changed the count of the resource named "Web" while
\* an asynchronous operation was under way, and the resource "web" is as it
\* was.
C18_Witness ==
  /\ pc["Scale"] = "done"
  /\ hist.mutated = 1
  /\ arg["Scale"].Name = <<"W", "e", "b">>
  /\ replicas[<<arg["Scale"].Namespace, <<"W", "e", "b">>>>] # 0
  /\ replicas[<<arg["Scale"].Namespace, <<"w", "e", "b">>>>] = 0
  /\ \E p \in AsyncTasks : Running(p)

\* The errors getClient returns.
AcquisitionErrors ==
  {[format |-> "Error initializing Kubernetes config: %s",
    args |-> <<"no configuration">>],
   [format |-> "NewForConfig failed", args |-> <<>>]}

\* C19: in getStatefulSet, VerifyNoHorizontalPodAutoscaler, Scale and GetPods
\* a failed client acquisition ends the invocation at once: it issues no
\* cluster API call, and the acquisition error is what it returns or sends.
C19_AcquisitionFailureEnds ==
  \A p \in Tasks :
    (local[p].err # Nil /\ Val(local[p].err) \in AcquisitionErrors) =>
      /\ pc[p] \in {"setClient", "done"}
      /\ api[p] = <<>>
      /\ pc[p] = "done" =>
           CASE p = "Scale" -> ret = local[p].err
             [] p = "GetK8sWorkload" ->
                  channel[p] = <<[Resource |-> Nil, Err |-> local[p].err]>>
             [] p = "GetPods" ->
                  channel[p] = <<[Pods |-> Nil, Err |-> local[p].err]>>
             [] OTHER -> channel[p] = <<local[p].err>>

\* C19 witness: GetPods has sent the error of a client construction that
\* failed, while Scale holds a client and is about to call the cluster.
C19_Witness ==
  /\ pc["GetPods"] = "done"
  /\ local["GetPods"].err # Nil
  /\ Val(local["GetPods"].err).format = "NewForConfig failed"
  /\ api["GetPods"] = <<>>
  /\ Len(channel["GetPods"]) = 1
  /\ pc["Scale"] = "call"

====
